---- MODULE Spec2Model ----
(***************************************************************************)
(* Session Gate (App) and Task List Synchronizer (TodoApp) over the        *)
(* Backend Collaborator (supabase client).                                 *)
(*                                                                         *)
(* Every remote call is asynchronous: a handler runs up to its await and   *)
(* issues a request; when the request settles (the store applies it and    *)
(* answers, or it fails) the rest of the handler runs, on the values its   *)
(* closure captured when the handler was invoked (tasks, session, newTask  *)
(* of that render).  Other handlers run in between.                        *)
(*                                                                         *)
(* A session is represented by the id of its user.  The store applies a    *)
(* request of the mounted TodoApp in the step that delivers its response;  *)
(* a failed request has not been applied.  created_at grows with every     *)
(* insert.  An error value of the backend is an instance of Error or not:  *)
(* both occur (an exception thrown by the client, the error slot of a      *)
(* response).  The error slot of a credential request holds an AuthError,  *)
(* which is an Error.                                                      *)
(*                                                                         *)
(* Auth and TodoApp are mounted and unmounted as App's render decides; a   *)
(* request of an unmounted component still reaches the backend, and the    *)
(* rest of its handler acts on nothing.  completionPercentage is computed  *)
(* as a Number (binary64, round to nearest even).                          *)
(***************************************************************************)
EXTENDS Integers, Sequences, FiniteSets, TLC

\* ---------------------------------------------------------------- bounds
MaxId == 2          \* ids the store hands out
MaxInFlight == 2    \* task requests in flight at once
MaxNotif == 1       \* auth-state notifications pending delivery
MaxAuthEvents == 1  \* auth-state changes of the backend in one behaviour
MaxTasks == 3       \* tasks of a collection whose percentage is computed

\* ------------------------------------------------------------- constants
Users == {"u1", "u2"}
NoSession == "none"
\* the session the backend has persisted when the page opens (the users
\* are interchangeable)
InitialSessions == {"u1", NoSession}
NoError == ""
\* a row of table todos
Row(id, user, text, completed, ts) ==
    [id |-> id, user_id |-> user, task |-> text, completed |-> completed,
     created_at |-> ts]
\* what the store holds when the page opens: nothing, or rows of earlier
\* visits (in insertion order)
InitialStores ==
    {<< >>,
     <<Row(1, "u1", <<"a">>, TRUE, 1), Row(2, "u1", <<"a">>, FALSE, 2)>>,
     <<Row(1, "u1", <<"a">>, FALSE, 1), Row(2, "u2", <<"a">>, FALSE, 2)>>}
\* values the user can type into the input field (sequences of characters)
Inputs == {<< >>, <<" ">>, <<" ", "a", " ">>}

\* --------------------------------------------------------------- helpers
IsSpace(c) == c = " "

RECURSIVE TrimStart(_)
TrimStart(s) ==
    IF s = << >> THEN << >>
    ELSE IF IsSpace(Head(s)) THEN TrimStart(Tail(s)) ELSE s

RECURSIVE TrimEnd(_)
TrimEnd(s) ==
    IF s = << >> THEN << >>
    ELSE IF IsSpace(s[Len(s)]) THEN TrimEnd(SubSeq(s, 1, Len(s) - 1)) ELSE s

\* String.prototype.trim
Trim(s) == TrimEnd(TrimStart(s))

\* Array.prototype.filter((task) => task.id !== id)
RECURSIVE FilterNotId(_, _)
FilterNotId(s, id) ==
    IF s = << >> THEN << >>
    ELSE IF Head(s).id # id THEN <<Head(s)>> \o FilterNotId(Tail(s), id)
         ELSE FilterNotId(Tail(s), id)

\* tasks.map((task) => task.id === id ? {...task, completed: c} : task)
MapCompleted(s, id, c) ==
    [k \in 1..Len(s) |->
        IF s[k].id = id THEN [s[k] EXCEPT !.completed = c] ELSE s[k]]

\* the rows of one user among the store's rows
RECURSIVE FilterUser(_, _)
FilterUser(s, u) ==
    IF s = << >> THEN << >>
    ELSE IF Head(s).user_id = u THEN <<Head(s)>> \o FilterUser(Tail(s), u)
         ELSE FilterUser(Tail(s), u)

Range(s) == {s[k] : k \in 1..Len(s)}

IsNewestFirst(s) ==
    \A i, j \in 1..Len(s) : i < j => s[i].created_at >= s[j].created_at

\* every sequence that lists the set S once, created_at descending
NewestFirstSeqs(S) ==
    {s \in [1..Cardinality(S) -> S] :
        /\ \A i, j \in 1..Cardinality(S) : i # j => s[i] # s[j]
        /\ IsNewestFirst(s)}

RemoveAt(s, i) == SubSeq(s, 1, i - 1) \o SubSeq(s, i + 1, Len(s))

\* error.message of a failed request
Message == "request failed"
\* the notice of Auth for a thrown value that is no Error
Unexpected == "An unexpected error occurred"

\* ------------------------------------------- Number (IEEE 754 binary64)
\* A Number that is not negative is [m, e]: the value m * 2^e, with m a
\* natural number of MantissaBits binary digits (or 0).  The values here
\* are far from the subnormal range and from overflow.  A natural number
\* is written in limbs of LimbBits binary digits, least significant first,
\* without leading zero limbs (0 is the empty sequence).
MantissaBits == 53
LimbBits == 15
Base == 2 ^ LimbBits

\* a small natural number in limbs
RECURSIVE Limbs(_)
Limbs(n) == IF n = 0 THEN << >> ELSE <<n % Base>> \o Limbs(n \div Base)

\* b * k + carry, for small naturals k and carry
RECURSIVE MulAcc(_, _, _)
MulAcc(b, k, carry) ==
    IF b = << >> THEN Limbs(carry)
    ELSE LET v == Head(b) * k + carry
         IN <<v % Base>> \o MulAcc(Tail(b), k, v \div Base)

\* quotient and remainder of b by a small natural k > 0
RECURSIVE DivAcc(_, _)
DivAcc(b, k) ==
    IF b = << >> THEN [q |-> << >>, r |-> 0]
    ELSE LET hi == DivAcc(Tail(b), k)
             v == hi.r * Base + Head(b)
         IN [q |-> IF hi.q = << >> /\ v \div k = 0 THEN << >>
                   ELSE <<v \div k>> \o hi.q,
             r |-> v % k]

\* b * 2^s
ShiftLeft(b, s) ==
    IF b = << >> THEN << >>
    ELSE [i \in 1..(s \div LimbBits) |-> 0] \o MulAcc(b, 2 ^ (s % LimbBits), 0)

\* b \div 2^s, and whether a digit that is not 0 was shifted out
ShiftRight(b, s) ==
    LET dropped == s \div LimbBits
        d == DivAcc(SubSeq(b, dropped + 1, Len(b)), 2 ^ (s % LimbBits))
    IN [q |-> d.q,
        inexact |-> d.r # 0 \/ \E i \in 1..dropped : i <= Len(b) /\ b[i] # 0]

\* the number of binary digits
SmallBitLen(x) == Cardinality({i \in 0..(LimbBits - 1) : 2 ^ i <= x})
BitLen(b) ==
    IF b = << >> THEN 0
    ELSE LimbBits * (Len(b) - 1) + SmallBitLen(b[Len(b)])

IsOdd(b) == b # << >> /\ b[1] % 2 = 1

\* a <= b
Leq(a, b) ==
    \/ Len(a) < Len(b)
    \/ /\ Len(a) = Len(b)
       /\ \/ a = b
          \/ \E i \in 1..Len(a) :
                /\ a[i] < b[i]
                /\ \A j \in (i + 1)..Len(a) : a[j] = b[j]

Zero == [m |-> << >>, e |-> 0]

\* the Number nearest to n * 2^e, ties to even
RoundNearestEven(n, e) ==
    IF n = << >> THEN Zero
    ELSE IF BitLen(n) <= MantissaBits
    THEN [m |-> ShiftLeft(n, MantissaBits - BitLen(n)),
          e |-> e - (MantissaBits - BitLen(n))]
    ELSE LET drop == BitLen(n) - MantissaBits
             h == ShiftRight(n, drop - 1)
             m0 == ShiftRight(h.q, 1).q
             up == IsOdd(h.q) /\ (h.inexact \/ IsOdd(m0))
             r == IF up THEN MulAcc(m0, 1, 1) ELSE m0
         IN IF BitLen(r) > MantissaBits
            THEN [m |-> ShiftRight(r, 1).q, e |-> e + drop + 1]
            ELSE [m |-> r, e |-> e + drop]

\* c / t for naturals c and t > 0: the quotient to more digits than the
\* mantissa holds, a last digit telling whether anything is left, rounded
FDiv(c, t) ==
    IF c = 0 THEN Zero
    ELSE LET s == MantissaBits + 2 + SmallBitLen(t)
             d == DivAcc(ShiftLeft(Limbs(c), s), t)
         IN RoundNearestEven(MulAcc(d.q, 2, IF d.r # 0 THEN 1 ELSE 0),
                             0 - s - 1)

\* x * k for a Number x and a small natural k
FMul(x, k) == RoundNearestEven(MulAcc(x.m, k, 0), x.e)

\* ----------------------------------------------------------------- state
VARIABLES
    rows,         \* store: table todos, in insertion order
    nextId,       \* store: id of the next inserted row
    clock,        \* store: latest created_at handed out
    backendUser,  \* backend: user of its current session, or NoSession
    notifQ,       \* backend: auth-state notifications not yet delivered
    authEvents,   \* backend: auth-state changes so far
    gateMounted,  \* App: mounted
    subscribed,   \* App: onAuthStateChange subscription is registered
    session,      \* App: useState session (the user id of it, or NoSession)
    appLoading,   \* App: useState loading
    gs,           \* App: getSession() promise: "pending", "read" (result
                  \*      determined), "applied" (fulfilled, .then callback
                  \*      run) or "rejected"
    gsVal,        \* App: session the getSession() promise resolves with
    tasks,        \* TodoApp: useState tasks
    newTask,      \* TodoApp: useState newTask
    loading,      \* TodoApp: useState loading
    error,        \* TodoApp: useState error
    ops,          \* TodoApp: handlers suspended at their await, each with
                  \*      the values its closure captured
    aLoading,     \* Auth: useState loading (the submitting flag)
    aError,       \* Auth: useState error
    isSignUp,     \* Auth: useState isSignUp
    authOp        \* Auth: the credential request in flight ("signIn",
                  \*      "signUp") or "none"; handleAuth is suspended at
                  \*      its await while aLoading, and the request is one of
                  \*      an unmounted Auth otherwise

storeVars == <<rows, nextId, clock>>
authVars == <<backendUser, notifQ, authEvents>>
gateVars == <<gateMounted, subscribed, session, appLoading, gs, gsVal>>
todoVars == <<tasks, newTask, loading, error>>
formVars == <<aLoading, aError, isSignUp, authOp>>
vars == <<rows, nextId, clock, backendUser, notifQ, authEvents, gateMounted, subscribed,
          session, appLoading, gs, gsVal, tasks, newTask, loading, error, ops,
          aLoading, aError, isSignUp, authOp>>

\* App renders <TodoApp session={session}/>
TodoShown == gateMounted /\ ~appLoading /\ session # NoSession
\* TodoApp renders its task view (not the loading placeholder)
TodoReady == TodoShown /\ ~loading
\* App renders <Auth />
AuthShown == gateMounted /\ ~appLoading /\ session = NoSession

\* what a successful add or toggle has done to the collection: the id of
\* the task and the completed value it has given it
Effect(kind, id, val) == [kind |-> kind, id |-> id, val |-> val]
NoEffect == Effect("none", 0, FALSE)

\* since is no state of the program: it records, for a delete in flight,
\* the last add or toggle issued after it whose success has been applied
Op(kind, id, user, text, cap, cur) ==
    [kind |-> kind, id |-> id, user |-> user, text |-> text, cap |-> cap,
     cur |-> cur, live |-> TRUE, since |-> NoEffect]

Init ==
    /\ rows \in InitialStores
    /\ nextId = Len(rows) + 1
    /\ clock = Len(rows)
    /\ backendUser \in InitialSessions
    /\ notifQ = << >>
    /\ authEvents = 0
    /\ gateMounted = TRUE
    /\ subscribed = TRUE
    /\ session = NoSession
    /\ appLoading = TRUE
    /\ gs = "pending"
    /\ gsVal = NoSession
    /\ tasks = << >>
    /\ newTask = << >>
    /\ loading = TRUE
    /\ error = NoError
    /\ ops = << >>
    /\ aLoading = FALSE
    /\ aError = NoError
    /\ isSignUp = FALSE
    /\ authOp = "none"

\* ------------------------------------------------- React reconciliation
\* requests of an unmounted TodoApp: their responses are ignored, but the
\* store still processes the ones it has not processed yet
RECURSIVE Orphaned(_)
Orphaned(s) ==
    IF s = << >> THEN << >>
    ELSE IF Head(s).kind # "load"
         THEN <<[Head(s) EXCEPT !.live = FALSE, !.cap = << >>,
                                !.since = NoEffect]>>
              \o Orphaned(Tail(s))
         ELSE Orphaned(Tail(s))

\* App re-renders with its new state.  A TodoApp that appears is mounted
\* with its initial state and its effect calls loadTasks(); a TodoApp that
\* disappears is unmounted; a TodoApp that stays keeps its state, whatever
\* the session prop now is.
Reconcile(shownAfter, user) ==
    IF ~TodoShown /\ shownAfter
    THEN /\ Len(ops) < MaxInFlight
         /\ tasks' = << >>
         /\ newTask' = << >>
         /\ loading' = TRUE
         /\ error' = NoError
         /\ ops' = Append(ops, Op("load", 0, user, << >>, << >>, FALSE))
    ELSE IF TodoShown /\ ~shownAfter
    THEN /\ tasks' = << >>
         /\ newTask' = << >>
         /\ loading' = TRUE
         /\ error' = NoError
         /\ ops' = Orphaned(ops)
    ELSE UNCHANGED <<tasks, newTask, loading, error, ops>>

\* An Auth that disappears is unmounted: its state is gone, and the rest of
\* a handleAuth suspended at its await acts on nothing.  An Auth that
\* appears is mounted with its initial state.
ReconcileAuth(shownAfter) ==
    IF AuthShown /\ ~shownAfter
    THEN /\ aLoading' = FALSE
         /\ aError' = NoError
         /\ isSignUp' = FALSE
         /\ UNCHANGED authOp
    ELSE UNCHANGED formVars

\* ---------------------------------------------------------- Session Gate
\* supabase.auth.getSession() determines its result: the backend's current
\* session, or no session together with an error value
GetSessionRead ==
    /\ gs = "pending"
    /\ \E s \in {backendUser, NoSession} :
        /\ gs' = "read"
        /\ gsVal' = s
    /\ UNCHANGED <<formVars, storeVars, authVars, gateMounted, subscribed, session,
                   appLoading, todoVars, ops>>

\* the getSession() promise rejects: .then has no rejection handler
GetSessionReject ==
    /\ gs = "pending"
    /\ gs' = "rejected"
    /\ UNCHANGED <<formVars, storeVars, authVars, gateMounted, subscribed, session,
                   appLoading, gsVal, todoVars, ops>>

\* .then(({ data: { session } }) => { setSession(session); setLoading(false) })
GetSessionThen ==
    /\ gs = "read"
    /\ gs' = "applied"
    /\ IF gateMounted
       THEN /\ session' = gsVal
            /\ appLoading' = FALSE
            /\ Reconcile(gsVal # NoSession, gsVal)
            /\ ReconcileAuth(gsVal = NoSession)
       ELSE UNCHANGED <<session, appLoading, todoVars, ops, formVars>>
    /\ UNCHANGED <<storeVars, authVars, gateMounted, subscribed, gsVal>>

\* onAuthStateChange((_event, session) => { setSession(session) })
AuthListener ==
    /\ subscribed
    /\ notifQ # << >>
    /\ session' = Head(notifQ)
    /\ notifQ' = Tail(notifQ)
    /\ Reconcile(~appLoading /\ Head(notifQ) # NoSession, Head(notifQ))
    /\ ReconcileAuth(~appLoading /\ Head(notifQ) = NoSession)
    /\ UNCHANGED <<storeVars, backendUser, authEvents, gateMounted, subscribed,
                   appLoading, gs, gsVal>>

\* a cleanup that leaves the subscription registered
GateUnmount_NoUnsubscribe ==
    /\ gateMounted
    /\ gateMounted' = FALSE
    /\ Reconcile(FALSE, NoSession)
    /\ ReconcileAuth(FALSE)
    /\ UNCHANGED <<storeVars, authVars, subscribed, session, appLoading, gs,
                   gsVal>>

\* the cleanup of App's effect: subscription.unsubscribe()
GateUnmount ==
    /\ gateMounted
    /\ gateMounted' = FALSE
    /\ subscribed' = FALSE
    /\ notifQ' = << >>
    /\ Reconcile(FALSE, NoSession)
    /\ ReconcileAuth(FALSE)
    /\ UNCHANGED <<storeVars, backendUser, authEvents, session, appLoading, gs, gsVal>>

\* the backend's auth state becomes s and it notifies the subscribers
Notify(s) ==
    /\ authEvents < MaxAuthEvents
    /\ authEvents' = authEvents + 1
    /\ backendUser' = s
    /\ IF subscribed
       THEN /\ Len(notifQ) < MaxNotif
            /\ notifQ' = Append(notifQ, s)
       ELSE UNCHANGED notifQ

\* sign-in, sign-out or expiry that the backend reports and that this page
\* did not ask for (another page on the same storage, a confirmation link,
\* the end of the session's life).  A token refresh keeps the user, and
\* with it the value session stands for here.
AuthStateChange(s) ==
    /\ s # backendUser
    /\ Notify(s)
    /\ UNCHANGED <<formVars, storeVars, gateVars, todoVars, ops>>

\* signOut that takes the Gate to Unauthenticated itself, on the completion
\* of its request
signOut_Direct ==
    /\ TodoReady
    /\ \/ Notify(NoSession)
       \/ UNCHANGED authVars
    /\ session' = NoSession
    /\ Reconcile(FALSE, NoSession)
    /\ ReconcileAuth(TRUE)
    /\ UNCHANGED <<storeVars, gateMounted, subscribed, appLoading, gs, gsVal>>

\* const signOut = async () => { await supabase.auth.signOut() }
signOut ==
    /\ TodoReady
    /\ \/ Notify(NoSession)
       \/ UNCHANGED authVars      \* the request fails; its result is dropped
    /\ UNCHANGED <<formVars, storeVars, gateVars, todoVars, ops>>

\* ------------------------------------------------------------- Auth form
\* handleAuth up to its await (the submit button is disabled while loading)
handleAuth ==
    /\ AuthShown
    /\ ~aLoading
    /\ authOp = "none"
    /\ aError' = NoError
    /\ aLoading' = TRUE
    /\ authOp' = IF isSignUp THEN "signUp" ELSE "signIn"
    /\ UNCHANGED <<storeVars, authVars, gateVars, todoVars, ops, isSignUp>>

\* the backend accepts the credentials.  signInWithPassword establishes a
\* session and the backend notifies the subscribers; signUp does the same,
\* or leaves the account waiting for its confirmation.
Accepted(kind) ==
    \/ \E u \in Users : Notify(u)
    \/ kind = "signUp" /\ UNCHANGED authVars

\* handleAuth after its await, no error: finally { setLoading(false) }
handleAuthOk ==
    /\ authOp # "none"
    /\ aLoading
    /\ Accepted(authOp)
    /\ aLoading' = FALSE
    /\ authOp' = "none"
    /\ UNCHANGED <<storeVars, gateVars, todoVars, ops, aError, isSignUp>>

\* handleAuth without its finally block
handleAuthReject_NoFinally ==
    /\ authOp # "none"
    /\ aLoading
    /\ aError' = Message
    /\ authOp' = "none"
    /\ UNCHANGED <<storeVars, authVars, gateVars, todoVars, ops, isSignUp,
                   aLoading>>

\* handleAuth after its await, the backend rejects the credentials: the
\* error slot holds an AuthError, which is an Error
handleAuthReject ==
    /\ authOp # "none"
    /\ aLoading
    /\ aError' = Message
    /\ aLoading' = FALSE
    /\ authOp' = "none"
    /\ UNCHANGED <<storeVars, authVars, gateVars, todoVars, ops, isSignUp>>

\* handleAuth after its await, a value that is no Error is thrown
handleAuthThrow ==
    /\ authOp # "none"
    /\ aLoading
    /\ aError' = Unexpected
    /\ aLoading' = FALSE
    /\ authOp' = "none"
    /\ UNCHANGED <<storeVars, authVars, gateVars, todoVars, ops, isSignUp>>

handleAuthSettle == handleAuthOk \/ handleAuthReject \/ handleAuthThrow

\* the credential request of an unmounted Auth is accepted or not; nobody
\* reads its response
AuthOrphan ==
    /\ authOp # "none"
    /\ ~aLoading
    /\ \/ Accepted(authOp)
       \/ UNCHANGED authVars
    /\ authOp' = "none"
    /\ UNCHANGED <<storeVars, gateVars, todoVars, ops, aLoading, aError,
                   isSignUp>>

\* toggleMode
toggleMode ==
    /\ AuthShown
    /\ isSignUp' = ~isSignUp
    /\ aError' = NoError
    /\ UNCHANGED <<storeVars, authVars, gateVars, todoVars, ops, aLoading,
                   authOp>>

\* ------------------------------------------- Backend Collaborator: store
\* select * from todos where user_id = X order by created_at desc
Select(user) == NewestFirstSeqs(Range(FilterUser(rows, user)))

\* the row an insert creates: the store assigns id and created_at
InsertedRow(user, text) == Row(nextId, user, text, FALSE, clock + 1)

\* insert into todos ... returning *
Insert(user, text) ==
    /\ nextId <= MaxId
    /\ rows' = Append(rows, InsertedRow(user, text))
    /\ nextId' = nextId + 1
    /\ clock' = clock + 1

\* update todos set completed = c where id = X
Update(id, c) ==
    /\ rows' = MapCompleted(rows, id, c)
    /\ UNCHANGED <<nextId, clock>>

\* delete from todos where id = X
Delete(id) ==
    /\ rows' = FilterNotId(rows, id)
    /\ UNCHANGED <<nextId, clock>>

\* a request of an unmounted TodoApp reaches the store, or fails; nobody
\* reads its response
StoreOrphan(i) ==
    /\ i \in 1..Len(ops)
    /\ ~ops[i].live
    /\ \/ ops[i].kind = "add" /\ Insert(ops[i].user, ops[i].text)
       \/ ops[i].kind = "toggle" /\ Update(ops[i].id, ~ops[i].cur)
       \/ ops[i].kind = "delete" /\ Delete(ops[i].id)
       \/ UNCHANGED storeVars
    /\ ops' = RemoveAt(ops, i)
    /\ UNCHANGED <<formVars, authVars, gateVars, todoVars>>

\* ------------------------------------------------- Task List Synchronizer
\* request i of the mounted TodoApp is in flight
Awaiting(i, kind) ==
    i \in 1..Len(ops) /\ ops[i].live /\ ops[i].kind = kind

\* the requests in flight, the deletes issued before request i having seen
\* the effect of request i
Noted(i, effect) ==
    [j \in 1..Len(ops) |->
        IF j < i /\ ops[j].live /\ ops[j].kind = "delete"
        THEN [ops[j] EXCEPT !.since = effect] ELSE ops[j]]

\* catch (error) { if (error instanceof Error) { setError(error.message) } }
\* the error value of the backend is an instance of Error or a plain object
Surface ==
    \E isError \in BOOLEAN :
        IF isError THEN error' = Message ELSE UNCHANGED error

\* loadTasks after its await: the store answers the request with the rows,
\* or with an error value
loadTasksOk(i) ==
    /\ Awaiting(i, "load")
    /\ \E data \in Select(ops[i].user) : tasks' = data
    /\ loading' = FALSE
    /\ ops' = RemoveAt(ops, i)
    /\ UNCHANGED <<formVars, storeVars, authVars, gateVars, newTask, error>>

\* loadTasks without its finally block
loadTasksFail_NoFinally(i) ==
    /\ Awaiting(i, "load")
    /\ Surface
    /\ ops' = RemoveAt(ops, i)
    /\ UNCHANGED <<formVars, storeVars, authVars, gateVars, newTask, tasks,
                   loading>>

loadTasksFail(i) ==
    /\ Awaiting(i, "load")
    /\ Surface
    /\ loading' = FALSE
    /\ ops' = RemoveAt(ops, i)
    /\ UNCHANGED <<formVars, storeVars, authVars, gateVars, newTask, tasks>>

loadTasksSettle(i) == loadTasksOk(i) \/ loadTasksFail(i)

\* handleInputChange
handleInputChange(v) ==
    /\ TodoReady
    /\ newTask' = v
    /\ UNCHANGED <<formVars, storeVars, authVars, gateVars, tasks, loading, error, ops>>

\* addTask with its guard on the untrimmed input: if (!newTask) return
addTask_GuardUntrimmed ==
    /\ TodoReady
    /\ LET trimmedTask == Trim(newTask)
       IN IF newTask = << >>
          THEN UNCHANGED <<error, ops>>
          ELSE /\ Len(ops) < MaxInFlight
               /\ error' = NoError
               /\ ops' = Append(ops, Op("add", 0, session, trimmedTask,
                                        tasks, FALSE))
    /\ UNCHANGED <<formVars, storeVars, authVars, gateVars, tasks, newTask, loading>>

\* addTask up to its await
addTask ==
    /\ TodoReady
    /\ LET trimmedTask == Trim(newTask)
       IN IF trimmedTask = << >>
          THEN UNCHANGED <<error, ops>>
          ELSE /\ Len(ops) < MaxInFlight
               /\ error' = NoError
               /\ ops' = Append(ops, Op("add", 0, session, trimmedTask,
                                        tasks, FALSE))
    /\ UNCHANGED <<formVars, storeVars, authVars, gateVars, tasks, newTask, loading>>

\* addTask that appends the new row: setTasks([...tasks, data])
addTaskOk_Append(i) ==
    /\ Awaiting(i, "add")
    /\ Insert(ops[i].user, ops[i].text)
    /\ LET data == InsertedRow(ops[i].user, ops[i].text)
       IN tasks' = ops[i].cap \o <<data>>
    /\ newTask' = << >>
    /\ ops' = RemoveAt(Noted(i, Effect("add", nextId, FALSE)), i)
    /\ UNCHANGED <<formVars, authVars, gateVars, loading, error>>

\* addTask after its await: the store inserts the row and returns it, or
\* answers with an error value
addTaskOk(i) ==
    /\ Awaiting(i, "add")
    /\ Insert(ops[i].user, ops[i].text)
    /\ LET data == InsertedRow(ops[i].user, ops[i].text)
       IN tasks' = <<data>> \o ops[i].cap
    /\ newTask' = << >>
    /\ ops' = RemoveAt(Noted(i, Effect("add", nextId, FALSE)), i)
    /\ UNCHANGED <<formVars, authVars, gateVars, loading, error>>

addTaskFail(i) ==
    /\ Awaiting(i, "add")
    /\ Surface
    /\ ops' = RemoveAt(ops, i)
    /\ UNCHANGED <<formVars, storeVars, authVars, gateVars, loading, tasks, newTask>>

addTaskSettle(i) == addTaskOk(i) \/ addTaskFail(i)

\* the checkbox of the k-th rendered task: toggleTask(task.id, task.completed)
\* up to its await
toggleTask(k) ==
    /\ TodoReady
    /\ k \in 1..Len(tasks)
    /\ Len(ops) < MaxInFlight
    /\ error' = NoError
    /\ ops' = Append(ops, Op("toggle", tasks[k].id, session, << >>, tasks,
                             tasks[k].completed))
    /\ UNCHANGED <<formVars, storeVars, authVars, gateVars, tasks, newTask, loading>>

\* toggleTask that puts the updated task in front instead of replacing it
toggleTaskOk_Prepend(i) ==
    /\ Awaiting(i, "toggle")
    /\ Update(ops[i].id, ~ops[i].cur)
    /\ tasks' = SelectSeq(MapCompleted(ops[i].cap, ops[i].id, ~ops[i].cur),
                          LAMBDA t : t.id = ops[i].id) \o ops[i].cap
    /\ ops' = RemoveAt(Noted(i, Effect("toggle", ops[i].id, ~ops[i].cur)), i)
    /\ UNCHANGED <<formVars, authVars, gateVars, newTask, loading, error>>

\* toggleTask after its await
toggleTaskOk(i) ==
    /\ Awaiting(i, "toggle")
    /\ Update(ops[i].id, ~ops[i].cur)
    /\ tasks' = MapCompleted(ops[i].cap, ops[i].id, ~ops[i].cur)
    /\ ops' = RemoveAt(Noted(i, Effect("toggle", ops[i].id, ~ops[i].cur)), i)
    /\ UNCHANGED <<formVars, authVars, gateVars, newTask, loading, error>>

toggleTaskFail(i) ==
    /\ Awaiting(i, "toggle")
    /\ Surface
    /\ ops' = RemoveAt(ops, i)
    /\ UNCHANGED <<formVars, storeVars, authVars, gateVars, newTask, loading, tasks>>

toggleTaskSettle(i) == toggleTaskOk(i) \/ toggleTaskFail(i)

\* the delete button of the k-th rendered task: deleteTask(task.id) up to
\* its await
deleteTask(k) ==
    /\ TodoReady
    /\ k \in 1..Len(tasks)
    /\ Len(ops) < MaxInFlight
    /\ LET originalTasks == tasks
       IN /\ tasks' = FilterNotId(tasks, tasks[k].id)
          /\ error' = NoError
          /\ ops' = Append(ops, Op("delete", tasks[k].id, session, << >>,
                                   originalTasks, FALSE))
    /\ UNCHANGED <<formVars, storeVars, authVars, gateVars, newTask, loading>>

\* deleteTask after its await
deleteTaskOk(i) ==
    /\ Awaiting(i, "delete")
    /\ Delete(ops[i].id)
    /\ ops' = RemoveAt(ops, i)
    /\ UNCHANGED <<formVars, authVars, gateVars, newTask, loading, tasks, error>>

\* a rollback that puts back the deleted task only
deleteTaskFail_ReinsertOnly(i) ==
    /\ Awaiting(i, "delete")
    /\ tasks' = SelectSeq(ops[i].cap, LAMBDA t : t.id = ops[i].id) \o tasks
    /\ Surface
    /\ ops' = RemoveAt(ops, i)
    /\ UNCHANGED <<formVars, storeVars, authVars, gateVars, newTask, loading>>

deleteTaskFail(i) ==
    /\ Awaiting(i, "delete")
    /\ tasks' = ops[i].cap
    /\ Surface
    /\ ops' = RemoveAt(ops, i)
    /\ UNCHANGED <<formVars, storeVars, authVars, gateVars, newTask, loading>>

deleteTaskSettle(i) == deleteTaskOk(i) \/ deleteTaskFail(i)

\* ------------------------------------------------------- derived values
\* const completedCount = tasks.filter((t) => t.completed).length
completedCount == Cardinality({k \in 1..Len(tasks) : tasks[k].completed})
\* const totalCount = tasks.length
totalCount == Len(tasks)

\* the fraction, not the percentage
completionPercentage_Fraction ==
    IF totalCount > 0 THEN FDiv(completedCount, totalCount) ELSE Zero

\* totalCount > 0 ? (completedCount / totalCount) * 100 : 0
completionPercentage ==
    IF totalCount > 0 THEN FMul(FDiv(completedCount, totalCount), 100)
    ELSE Zero

\* ---------------------------------------------------------- specification
Slots == 1..MaxInFlight

Next ==
    \/ GetSessionRead
    \/ GetSessionReject
    \/ GetSessionThen
    \/ AuthListener
    \/ GateUnmount
    \/ \E s \in Users \cup {NoSession} : AuthStateChange(s)
    \/ signOut
    \/ handleAuth
    \/ handleAuthSettle
    \/ AuthOrphan
    \/ toggleMode
    \/ \E i \in Slots : StoreOrphan(i)
    \/ \E i \in Slots : loadTasksSettle(i)
    \/ \E v \in Inputs : handleInputChange(v)
    \/ addTask
    \/ \E i \in Slots : addTaskSettle(i)
    \/ \E k \in 1..MaxId : toggleTask(k)
    \/ \E i \in Slots : toggleTaskSettle(i)
    \/ \E k \in 1..MaxId : deleteTask(k)
    \/ \E i \in Slots : deleteTaskSettle(i)

Spec == Init /\ [][Next]_vars

\* The task view of an identity that has up to MaxTasks tasks, none of
\* them completed, after its load: the collection is the newest-first
\* listing of the store's rows.
Reverse(s) == [k \in 1..Len(s) |-> s[Len(s) + 1 - k]]

LoadedStores ==
    {[k \in 1..n |-> Row(k, "u1", <<"a">>, FALSE, k)] : n \in 0..MaxTasks}

InitLoaded ==
    /\ rows \in LoadedStores
    /\ nextId = Len(rows) + 1
    /\ clock = Len(rows)
    /\ backendUser = "u1"
    /\ notifQ = << >>
    /\ authEvents = 0
    /\ gateMounted = TRUE
    /\ subscribed = TRUE
    /\ session = "u1"
    /\ appLoading = FALSE
    /\ gs = "applied"
    /\ gsVal = "u1"
    /\ tasks = Reverse(rows)
    /\ newTask = << >>
    /\ loading = FALSE
    /\ error = NoError
    /\ ops = << >>
    /\ aLoading = FALSE
    /\ aError = NoError
    /\ isSignUp = FALSE
    /\ authOp = "none"

\* the handlers of the task view that act on the tasks it shows
NextTasks ==
    \/ \E k \in 1..MaxTasks : toggleTask(k)
    \/ \E i \in Slots : toggleTaskSettle(i)
    \/ \E k \in 1..MaxTasks : deleteTask(k)
    \/ \E i \in Slots : deleteTaskSettle(i)

SpecLoaded == InitLoaded /\ [][NextTasks]_vars

\* The executions in which no delete fails, on a store that is empty when
\* the page opens (every row is then one this page has added).
InitFresh == Init /\ rows = << >>

NextNoDeleteFail ==
    \/ GetSessionRead
    \/ GetSessionReject
    \/ GetSessionThen
    \/ AuthListener
    \/ GateUnmount
    \/ \E s \in Users \cup {NoSession} : AuthStateChange(s)
    \/ signOut
    \/ handleAuth
    \/ handleAuthSettle
    \/ AuthOrphan
    \/ toggleMode
    \/ \E i \in Slots : StoreOrphan(i)
    \/ \E i \in Slots : loadTasksSettle(i)
    \/ \E v \in Inputs : handleInputChange(v)
    \/ addTask
    \/ \E i \in Slots : addTaskSettle(i)
    \/ \E k \in 1..MaxId : toggleTask(k)
    \/ \E i \in Slots : toggleTaskSettle(i)
    \/ \E k \in 1..MaxId : deleteTask(k)
    \/ \E i \in Slots : deleteTaskOk(i)

SpecNoDeleteFail == InitFresh /\ [][NextNoDeleteFail]_vars

\* ------------------------------------------------------------ properties
\* the request a handler has just issued
Issued == ops'[Len(ops')]
IssuedKind(kind) ==
    /\ Len(ops') = Len(ops) + 1
    /\ Issued.kind = kind
    /\ Issued.live

\* C1: delete(t.id) removes t from the local collection when it is issued
\* (one shorter, the others in their order); when the remote delete fails
\* the collection is again the sequence it was just before the delete was
\* issued, and an error message is shown.
C1_DeleteOptimisticRollback ==
    [][ /\ \A k \in 1..MaxId : deleteTask(k) =>
            /\ Len(tasks') = Len(tasks) - 1
            /\ tasks' = RemoveAt(tasks, k)
            /\ Issued.cap = tasks
        /\ \A i \in Slots : deleteTaskFail(i) =>
            /\ tasks' = ops[i].cap
            /\ error' = Message ]_vars

\* C2: after toggle(t.id) and a successful response the collection holds
\* exactly one task with id t.id, its completed is the negation of
\* t.completed at the time of the toggle, and the other tasks are those of
\* the collection just before the response was applied.
C2_ToggleSuccess ==
    [][ /\ \A k \in 1..MaxId : toggleTask(k) =>
            /\ Issued.id = tasks[k].id
            /\ Issued.cur = tasks[k].completed
        /\ \A i \in Slots : toggleTaskOk(i) =>
            /\ Cardinality({k \in 1..Len(tasks') :
                              tasks'[k].id = ops[i].id}) = 1
            /\ \A k \in 1..Len(tasks') :
                  tasks'[k].id = ops[i].id =>
                      tasks'[k].completed = ~ops[i].cur
            /\ Len(tasks') = Len(tasks)
            /\ FilterNotId(tasks', ops[i].id) = FilterNotId(tasks, ops[i].id)
      ]_vars

\* C3: after an add of a text that is not blank and a successful insert,
\* the first task of the collection is the row the store returned, with
\* the trimmed text and not completed, the collection is one longer than
\* just before the response was applied, and the input field is empty.
C3_AddSuccess ==
    [][ /\ IssuedKind("add") => Issued.text = Trim(newTask)
        /\ \A i \in Slots : addTaskOk(i) =>
            /\ tasks' # << >>
            /\ Head(tasks') \in Range(rows')
            /\ Head(tasks').id = nextId
            /\ Head(tasks').task = ops[i].text
            /\ Head(tasks').completed = FALSE
            /\ Len(tasks') = Len(tasks) + 1
            /\ newTask' = << >> ]_vars

\* C4: with no request in flight, the collection is the store's rows of
\* the identity, newest first (this page being the only writer, and the
\* identity the one the page started with).
C4_Convergent ==
    (TodoReady /\ ops = << >> /\ authEvents = 0) => tasks \in Select(session)

\* C5: every task of the collection is owned by the Gate's current
\* identity.
C5_TasksOfIdentity ==
    TodoShown => \A k \in 1..Len(tasks) : tasks[k].user_id = session

\* C6: an add of an empty or whitespace-only text does nothing: no request
\* is issued, and the collection, the error notice and the input field
\* stay as they are.
C6_BlankAddNoOp ==
    [][ /\ (addTask /\ Trim(newTask) = << >>) =>
              UNCHANGED <<ops, rows, tasks, error, newTask>>
        /\ IssuedKind("add") =>
              /\ Trim(newTask) # << >>
              /\ Issued.text # << >> ]_vars

\* a whitespace-only text is in the input field of a task view that shows
\* tasks and an error notice, and the add can be submitted
C6_Witness ==
    /\ TodoReady
    /\ newTask = <<" ">>
    /\ tasks # << >>
    /\ error # NoError
    /\ ENABLED addTask

\* C7: a failing insert leaves the collection as it is (at issue and at
\* failure), keeps the text of the input field, and shows an error message.
C7_AddFailure ==
    [][ /\ addTask => UNCHANGED <<tasks, newTask>>
        /\ \A i \in Slots : addTaskFail(i) =>
            /\ UNCHANGED <<tasks, newTask>>
            /\ error' = Message ]_vars

\* C8: a failing update leaves the collection as it is (at issue and at
\* failure) and shows an error message.
C8_ToggleFailure ==
    [][ /\ \A k \in 1..MaxId : toggleTask(k) => UNCHANGED tasks
        /\ \A i \in Slots : toggleTaskFail(i) =>
            /\ UNCHANGED tasks
            /\ error' = Message ]_vars

\* C9: a failing load leaves the collection as it is and shows an error
\* message; a successful load replaces the collection by the rows of the
\* identity, newest first.  (The failing loads looked at are those of an
\* identity that has rows: the step cannot be a successful load as well.)
C9_Load ==
    [][ \A i \in Slots :
          /\ (loadTasksFail(i) /\ ~loadTasksOk(i)) =>
                /\ UNCHANGED tasks
                /\ error' = Message
          /\ loadTasksOk(i) =>
                /\ IsNewestFirst(tasks')
                /\ Len(tasks') = Cardinality(Range(tasks'))
                /\ Range(tasks') =
                      {r \in Range(rows) : r.user_id = ops[i].user} ]_vars

\* C10: the Gate is in Loading exactly until the getSession() promise has
\* settled and its reaction has run; no notification takes it out of
\* Loading before, and nothing takes it back.
C10_LeavesLoading ==
    gateMounted =>
        /\ gs \in {"pending", "read"} => appLoading
        /\ gs \in {"applied", "rejected"} => ~appLoading

\* C11: once the Gate has left Loading, its identity changes only in a step
\* of the registered listener delivering an auth-state notification; the
\* completion of handleAuth (sign-in or sign-up, accepted or not) and the
\* completion of signOut leave the Gate's identity as it is.
C11_IdentityOnlyByListener ==
    [][ /\ (gateMounted /\ ~appLoading /\ session' # session) =>
              (AuthListener /\ subscribed /\ session' = Head(notifQ))
        /\ (handleAuthSettle \/ AuthOrphan \/ signOut) =>
              session' = session ]_vars

\* a sign-in has been accepted and handleAuth has completed, the backend
\* holds the session, its notification is not delivered yet, and the Gate
\* still shows the form
C11_Witness ==
    /\ AuthShown
    /\ authOp = "none"
    /\ ~aLoading
    /\ backendUser \in Users
    /\ notifQ = <<backendUser>>

\* C12: the listener is registered exactly while the Gate is mounted: it is
\* deregistered in the teardown step and in no other, never registered
\* again, and never invoked once the Gate is torn down.
C12_ListenerScoped ==
    /\ [](subscribed <=> gateMounted)
    /\ [][ /\ (subscribed' # subscribed) =>
                  (GateUnmount /\ subscribed /\ ~subscribed')
           /\ AuthListener => (gateMounted /\ gateMounted')
           /\ ~gateMounted => (session' = session /\ ~gateMounted') ]_vars

\* the Gate is torn down, and the backend's session has changed to one the
\* Gate never saw
C12_Witness ==
    /\ ~gateMounted
    /\ ~subscribed
    /\ authEvents > 0
    /\ backendUser # session
    /\ notifQ = << >>

\* C14: when the backend rejects the submitted credentials, the form shows
\* the failure's message, the Gate stays Unauthenticated, and the
\* submitting flag is false again, so that the form can be submitted again;
\* the flag is false again after an accepted submission as well.
C14_AuthRejected ==
    [][ /\ handleAuthReject =>
              /\ aError' = Message
              /\ session = NoSession /\ session' = NoSession
              /\ aLoading /\ ~aLoading'
              /\ AuthShown' /\ authOp' = "none"
        /\ handleAuthOk => (aLoading /\ ~aLoading') ]_vars

\* the form shows the message of a rejected submission and can be submitted
\* again
C14_Witness ==
    /\ AuthShown
    /\ aError = Message
    /\ ~aLoading
    /\ ENABLED handleAuth

\* C13 as stated: completionPercentage is 0 for the empty collection and
\* otherwise completionPercentage * totalCount = 100 * completedCount
\* (as numbers, exactly), and it lies between 0 and 100.
C13_PercentageExact ==
    LET p == completionPercentage
    IN /\ totalCount = 0 => p = Zero
       /\ totalCount > 0 =>
             /\ MulAcc(p.m, totalCount, 0) =
                   ShiftLeft(Limbs(100 * completedCount), 0 - p.e)
             /\ Leq(p.m, ShiftLeft(Limbs(100), 0 - p.e))

\* C13 as amended: completionPercentage is 0 for the empty collection and
\* otherwise the Number (completedCount / totalCount) * 100 of two rounded
\* operations: completionPercentage * totalCount differs from
\* 100 * completedCount by at most 2 * totalCount units in the last place
\* of completionPercentage; it is exactly 0 when nothing is completed and
\* exactly 100 when everything is, and it lies between 0 and 100.
C13_PercentageRounded ==
    LET p == completionPercentage
        pt == MulAcc(p.m, totalCount, 0)
        exact == ShiftLeft(Limbs(100 * completedCount), 0 - p.e)
    IN /\ totalCount = 0 => p = Zero
       /\ totalCount > 0 =>
             /\ Leq(pt, MulAcc(exact, 1, 2 * totalCount))
             /\ Leq(exact, MulAcc(pt, 1, 2 * totalCount))
             /\ completedCount = 0 => p = Zero
             /\ completedCount = totalCount =>
                   p = RoundNearestEven(Limbs(100), 0)
             /\ Leq(p.m, ShiftLeft(Limbs(100), 0 - p.e))

\* the task view shows three tasks, one of them completed, with nothing in
\* flight
C13_Witness ==
    /\ TodoReady
    /\ totalCount = 3
    /\ completedCount = 1
    /\ ops = << >>
    /\ completionPercentage # Zero

\* C15: in an execution in which no delete fails, once every issued
\* operation has settled, every add and every toggle the store has
\* acknowledged is reflected in the collection: each row of the store (all
\* of them added by this page) is in the collection, with the completed
\* value the store holds.
C15_AcknowledgedReflected ==
    (TodoReady /\ ops = << >> /\ authEvents = 0) =>
        \A r \in Range(rows) : r \in Range(tasks)

Ids(s) == {s[k].id : k \in 1..Len(s)}

\* C16 as stated: when an add or a toggle was issued after a delete's
\* optimistic removal and its success applied before the delete fails, the
\* rollback restores the whole snapshot, and the added task is absent
\* locally while the store holds it / the toggled task has locally the
\* value before the flip while the store holds the flipped value.  (The
\* toggles looked at are those of a task other than the deleted one.)
C16_RollbackDiscards ==
    [][ \A i \in Slots : deleteTaskFail(i) =>
          LET eff == ops[i].since
          IN /\ tasks' = ops[i].cap
             /\ eff.kind = "add" =>
                   /\ eff.id \notin Ids(tasks')
                   /\ eff.id \in Ids(rows')
             /\ (eff.kind = "toggle" /\ eff.id # ops[i].id) =>
                   /\ \A k \in 1..Len(tasks') :
                         tasks'[k].id = eff.id =>
                             tasks'[k].completed = ~eff.val
                   /\ \E k \in 1..Len(rows') :
                         /\ rows'[k].id = eff.id
                         /\ rows'[k].completed = eff.val ]_vars

\* C16 as amended: the rollback restores the whole snapshot and leaves the
\* store as it is: a task added since is absent locally, and every task
\* has the completed value of the snapshot, whatever the store holds.
C16_RollbackRestoresSnapshot ==
    [][ \A i \in Slots : deleteTaskFail(i) =>
          LET eff == ops[i].since
          IN /\ tasks' = ops[i].cap
             /\ rows' = rows
             /\ eff.kind = "add" => eff.id \notin Ids(tasks')
             /\ \A k \in 1..Len(tasks) :
                   tasks[k] \notin Range(ops[i].cap) =>
                       tasks[k] \notin Range(tasks') ]_vars

\* a delete is in flight and can fail, and the success of an add or toggle
\* issued after it has been applied to the collection
C16_Witness ==
    \E i \in 1..Len(ops) :
        /\ TodoReady
        /\ Awaiting(i, "delete")
        /\ ops[i].since.kind # "none"
        /\ tasks # ops[i].cap
        /\ ENABLED deleteTaskFail(i)

\* C17: the collection is ordered newest first in every reachable state:
\* for positions i < j, created_at of the task at i is not earlier than
\* created_at of the task at j.
C17_NewestFirst == IsNewestFirst(tasks)

\* the task view shows the task it has just added in front of an older one
C17_Witness ==
    /\ TodoReady
    /\ Len(tasks) = 2
    /\ tasks[1].created_at = clock
    /\ tasks[1].created_at > tasks[2].created_at
    /\ newTask = << >>
    /\ nextId = 3

\* C18: once the Gate has left Loading and no notification is pending, the
\* Gate's identity is the backend's current session.  (The initial-session
\* results looked at are sessions: the backend held that session when
\* getSession() read it.)
C18_GateMatchesBackend ==
    (gateMounted /\ ~appLoading /\ notifQ = << >> /\ gsVal # NoSession) =>
        session = backendUser

\* C19: the task view is in its loading state exactly while its initial
\* load is in flight: the step that settles the load, with rows or with
\* an error, ends it, and no add, toggle or delete is issued before.
C19_LoadingUntilLoaded ==
    /\ [](TodoShown =>
            (loading <=> \E i \in 1..Len(ops) : Awaiting(i, "load")))
    /\ [][ /\ \A i \in Slots : loadTasksSettle(i) => (loading /\ ~loading')
           /\ (IssuedKind("add") \/ IssuedKind("toggle")
                  \/ IssuedKind("delete")) =>
                 /\ ~loading
                 /\ \A j \in 1..Len(ops) : ~Awaiting(j, "load") ]_vars

\* the task view is shown after a load that has failed: the store holds
\* tasks of the identity, the collection is empty
C19_Witness ==
    /\ TodoReady
    /\ tasks = << >>
    /\ error = Message
    /\ FilterUser(rows, session) # << >>
    /\ ops = << >>
    /\ authEvents = 0
    /\ ENABLED addTask

\* C20: no two tasks of the collection have the same id, in every
\* reachable state.
C20_UniqueIds == Cardinality(Ids(tasks)) = Len(tasks)

\* the task view shows two tasks and an error notice, with nothing in
\* flight (as after the rollback of a delete)
C20_Witness ==
    /\ TodoReady
    /\ Len(tasks) = 2
    /\ tasks[1].id # tasks[2].id
    /\ error = Message
    /\ ops = << >>

====
